---- MODULE Spec2Model ----
(***************************************************************************)
(* Data models of the food delivery server (src/data_models/models.py):    *)
(* the dataclasses Restaurant, MenuItem, User, OrderItem,                  *)
(* OrderCreationData and Order, their construction-time defaulting and     *)
(* their to_dict() conversions, and the OrderStatus constant table.        *)
(*                                                                         *)
(* Python values are modelled as follows.  An Optional field is None (the  *)
(* empty tuple) or Some(v) (a one-element tuple).  A list is an object on  *)
(* the heap and a field of type List holds its address, so that two        *)
(* holders of the same list see each other's changes.  A dataclass         *)
(* instance is a record carrying its class name in the field cls.  Floats  *)
(* and datetimes are integers (the conversions only copy them).            *)
(***************************************************************************)
EXTENDS Integers, Sequences, FiniteSets, TLC

VARIABLES
    heap,      \* the list objects, by address
    rec,       \* the dataclass instance the caller holds
    args,      \* the arguments it was constructed from
    clock,     \* what datetime.now(timezone.utc) returns now
    lastOp,    \* "none", "construct", "to_dict" or "mutate"
    out,       \* the mapping the last to_dict() returned, None once the
               \* instance is replaced or a list is changed
    prev,      \* the mapping the to_dict() before it returned, likewise
    statuses   \* the list the last get_valid_statuses() returned

vars == <<heap, rec, args, clock, lastOp, out, prev, statuses>>

-----------------------------------------------------------------------------
(* Bounds *)

MaxClock == 1

MaxLists == 1

MaxLen == 2

-----------------------------------------------------------------------------
(* Python values *)

None == <<>>

Some(v) == <<v>>

Omitted == <<>>

GeoPoint(latitude, longitude) == [latitude |-> latitude, longitude |-> longitude]

NoObject == [cls |-> "NoObject"]

\* bool(x) of an Optional[str]: None and "" are falsy
TruthyStr(x) == x # None /\ x[1] # ""

\* bool(x) of an Optional[GeoPoint]: GeoPoint defines neither __bool__ nor
\* __len__, so every instance is truthy, whatever its coordinates
TruthyObj(x) == x # None

-----------------------------------------------------------------------------
(* OrderStatus *)

PENDING == "pending"

CONFIRMED == "confirmed"

PREPARING == "preparing"

READY == "ready"

OUT_FOR_DELIVERY == "out_for_delivery"

DELIVERED == "delivered"

CANCELLED == "cancelled"

get_valid_statuses_Reordered ==
    <<PENDING, CONFIRMED, READY, PREPARING, OUT_FOR_DELIVERY, DELIVERED, CANCELLED>>

get_valid_statuses ==
    <<PENDING, CONFIRMED, PREPARING, READY, OUT_FOR_DELIVERY, DELIVERED, CANCELLED>>

-----------------------------------------------------------------------------
(* Restaurant *)

Restaurant_init(a) ==
    [cls |-> "Restaurant", id |-> a.id, name |-> a.name, cuisine |-> a.cuisine,
     address |-> a.address, rating |-> a.rating, deliveryFee |-> a.deliveryFee,
     estimatedDeliveryTime |-> a.estimatedDeliveryTime,
     subname |-> a.subname, coords |-> a.coords]

Restaurant_to_dict_NotNone(r) ==
    LET data == [id |-> r.id, name |-> r.name, cuisine |-> r.cuisine,
                 address |-> r.address, rating |-> r.rating,
                 deliveryFee |-> r.deliveryFee,
                 estimatedDeliveryTime |-> r.estimatedDeliveryTime]
        data1 == IF r.subname # None
                 THEN [subname |-> r.subname[1]] @@ data ELSE data
        data2 == IF TruthyObj(r.coords)
                 THEN [coords |-> [latitude |-> r.coords[1].latitude,
                                   longitude |-> r.coords[1].longitude]] @@ data1
                 ELSE data1
    IN  data2

Restaurant_to_dict(r) ==
    LET data == [id |-> r.id, name |-> r.name, cuisine |-> r.cuisine,
                 address |-> r.address, rating |-> r.rating,
                 deliveryFee |-> r.deliveryFee,
                 estimatedDeliveryTime |-> r.estimatedDeliveryTime]
        data1 == IF TruthyStr(r.subname)
                 THEN [subname |-> r.subname[1]] @@ data ELSE data
        data2 == IF TruthyObj(r.coords)
                 THEN [coords |-> [latitude |-> r.coords[1].latitude,
                                   longitude |-> r.coords[1].longitude]] @@ data1
                 ELSE data1
    IN  data2

-----------------------------------------------------------------------------
(* MenuItem *)

MenuItem_init(a) ==
    [cls |-> "MenuItem", id |-> a.id, name |-> a.name,
     description |-> a.description, price |-> a.price]

MenuItem_to_dict(r) ==
    [id |-> r.id, name |-> r.name, description |-> r.description, price |-> r.price]

-----------------------------------------------------------------------------
(* User *)

User_init(a) ==
    [cls |-> "User", id |-> a.id, email |-> a.email, name |-> a.name,
     order_history |-> a.order_history]

\* the expression [] allocates a new list object, at the next free address
User_post_init_NoDefault(u, h) == [obj |-> u, heap |-> h]

User_post_init(u, h) ==
    IF u.order_history = None
    THEN [obj |-> [u EXCEPT !.order_history = Some(Len(h) + 1)],
          heap |-> Append(h, [kind |-> "str", elems |-> <<>>])]
    ELSE [obj |-> u, heap |-> h]

User_to_dict(r) ==
    [id |-> r.id, email |-> r.email, name |-> r.name,
     orderHistory |-> r.order_history]

-----------------------------------------------------------------------------
(* OrderItem *)

OrderItem_init(a) == [cls |-> "OrderItem", menu_item_id |-> a.menu_item_id]

OrderItem_to_dict(r) == [menuItemId |-> r.menu_item_id]

-----------------------------------------------------------------------------
(* OrderCreationData *)

OrderCreationData_init(a) ==
    [cls |-> "OrderCreationData", restaurant_id |-> a.restaurant_id,
     user_id |-> a.user_id, item_ids |-> a.item_ids,
     delivery_address |-> a.delivery_address]

OrderCreationData_to_dict(r) ==
    [restaurant |-> r.restaurant_id, user |-> r.user_id, items |-> r.item_ids,
     deliveryAddress |-> r.delivery_address]

-----------------------------------------------------------------------------
(* Order *)

DefaultStatus == "pending"

Order_init_DefaultNew(a, h) ==
    [obj |-> [cls |-> "Order", restaurant |-> a.restaurant, user |-> a.user,
              items |-> a.items, delivery_address |-> a.delivery_address,
              status |-> IF a.status = Omitted THEN "new" ELSE a.status[1],
              order_id |-> a.order_id, created_at |-> a.created_at,
              updated_at |-> a.updated_at],
     heap |-> h]

Order_init_Copy(a, h) ==
    [obj |-> [cls |-> "Order", restaurant |-> a.restaurant, user |-> a.user,
              items |-> Len(h) + 1, delivery_address |-> a.delivery_address,
              status |-> IF a.status = Omitted THEN DefaultStatus ELSE a.status[1],
              order_id |-> a.order_id, created_at |-> a.created_at,
              updated_at |-> a.updated_at],
     heap |-> Append(h, h[a.items])]

\* the generated __init__: the arguments are assigned to the fields as they
\* are: items holds the address of the caller's list, and no list is allocated
Order_init(a, h) ==
    [obj |-> [cls |-> "Order", restaurant |-> a.restaurant, user |-> a.user,
              items |-> a.items, delivery_address |-> a.delivery_address,
              status |-> IF a.status = Omitted THEN DefaultStatus ELSE a.status[1],
              order_id |-> a.order_id, created_at |-> a.created_at,
              updated_at |-> a.updated_at],
     heap |-> h]

Order_post_init_Coupled(o, uid, t1, t2) ==
    [o EXCEPT !.order_id = IF o.order_id = None THEN Some(uid) ELSE @,
              !.created_at = IF o.created_at = None THEN Some(t1) ELSE @,
              !.updated_at = IF o.created_at = None \/ o.updated_at = None
                             THEN Some(t2) ELSE @]

Order_post_init_Swapped(o, uid, t1, t2) ==
    [o EXCEPT !.order_id = IF o.order_id = None THEN Some(uid) ELSE @,
              !.created_at = IF o.created_at = None THEN Some(t2) ELSE @,
              !.updated_at = IF o.updated_at = None THEN Some(t1) ELSE @]

\* uid is the value of str(uuid.uuid4()); t1 and t2 are the values of the
\* first and the second datetime.now(timezone.utc) of the method
Order_post_init(o, uid, t1, t2) ==
    [o EXCEPT !.order_id = IF o.order_id = None THEN Some(uid) ELSE @,
              !.created_at = IF o.created_at = None THEN Some(t1) ELSE @,
              !.updated_at = IF o.updated_at = None THEN Some(t2) ELSE @]

Order_to_dict_WithId(r) ==
    [restaurant |-> r.restaurant, user |-> r.user,
     items |-> [i \in 1..Len(heap[r.items].elems) |->
                  OrderItem_to_dict(heap[r.items].elems[i])],
     deliveryAddress |-> r.delivery_address, status |-> r.status,
     createdAt |-> r.created_at, updatedAt |-> r.updated_at,
     orderId |-> r.order_id]

Order_to_dict_Touch(r) ==
    [restaurant |-> r.restaurant, user |-> r.user,
     items |-> [i \in 1..Len(heap[r.items].elems) |->
                  OrderItem_to_dict(heap[r.items].elems[i])],
     deliveryAddress |-> r.delivery_address, status |-> r.status,
     createdAt |-> r.created_at, updatedAt |-> Some(clock)]

Order_to_dict(r) ==
    [restaurant |-> r.restaurant, user |-> r.user,
     items |-> [i \in 1..Len(heap[r.items].elems) |->
                  OrderItem_to_dict(heap[r.items].elems[i])],
     deliveryAddress |-> r.delivery_address, status |-> r.status,
     createdAt |-> r.created_at, updatedAt |-> r.updated_at]

-----------------------------------------------------------------------------
(* to_dict() of whichever dataclass the record is an instance of *)

to_dict(r) ==
    CASE r.cls = "Restaurant" -> Restaurant_to_dict(r)
      [] r.cls = "MenuItem" -> MenuItem_to_dict(r)
      [] r.cls = "User" -> User_to_dict(r)
      [] r.cls = "OrderItem" -> OrderItem_to_dict(r)
      [] r.cls = "OrderCreationData" -> OrderCreationData_to_dict(r)
      [] r.cls = "Order" -> Order_to_dict(r)

-----------------------------------------------------------------------------
(* Inputs *)

Range(f) == {f[i] : i \in DOMAIN f}

SeqsUpTo(S, n) == UNION {[1..k -> S] : k \in 0..n}

MenuItemIds == {"m1", "m2"}

OrderIds == {"o1", "o2"}

UUIDs == {"uuid-a", "uuid-b"}

OrderItems == {OrderItem_init([menu_item_id |-> m]) : m \in MenuItemIds}

StatusInputs ==
    {Omitted} \cup {Some(s) : s \in Range(get_valid_statuses) \cup {"shipped"}}

RestaurantArgs ==
    [id : {"r1"}, name : {"Roma", "Kyoto"}, cuisine : {"italian"},
     address : {"1 Main St"}, rating : {0, 45}, deliveryFee : {3},
     estimatedDeliveryTime : {30},
     subname : {None, Some(""), Some("Centro")},
     coords : {None} \cup {Some(GeoPoint(la, lo)) : la \in {0, 12}, lo \in {0, -7}}]

MenuItemArgs ==
    [id : {"m1", "m2"}, name : {"Pizza"}, description : {"", "Margherita"},
     price : {0, 9}]

UserArgs ==
    [id : {"u1", "u2"}, email : {"u1@example.com"}, name : {"Ann"},
     order_history : {None} \cup {Some(a) : a \in 1..MaxLists}]

OrderItemArgs == [menu_item_id : MenuItemIds]

OrderCreationDataArgs ==
    [restaurant_id : {"r1"}, user_id : {"u1"}, item_ids : 1..MaxLists,
     delivery_address : {"123 Main St"}]

\* every combination of supplied and omitted order_id, created_at, updated_at
OrderArgs ==
    [restaurant : {"r1"}, user : {"u1"}, items : 1..MaxLists,
     delivery_address : {"123 Main St"}, status : {Omitted, Some(CONFIRMED)},
     order_id : {None, Some("o1")}, created_at : {None, Some(0)},
     updated_at : {None, Some(0)}]

\* every status, valid or not
StatusOrderArgs ==
    [restaurant : {"r1"}, user : {"u1"}, items : 1..MaxLists,
     delivery_address : {"123 Main St"}, status : StatusInputs,
     order_id : {None, Some("o1")}, created_at : {None}, updated_at : {None, Some(0)}]

\* every list of items, the timestamps supplied
ItemsOrderArgs ==
    [restaurant : {"r1"}, user : {"u1"}, items : 1..MaxLists,
     delivery_address : {"123 Main St"}, status : {Omitted, Some(CONFIRMED)},
     order_id : {None, Some("o1")}, created_at : {Some(0)}, updated_at : {Some(1)}]

SmallOrderArgs ==
    [restaurant : {"r1"}, user : {"u1"}, items : 1..MaxLists,
     delivery_address : {"123 Main St"}, status : {Omitted},
     order_id : {None}, created_at : {Some(0)}, updated_at : {None}]

SmallRestaurantArgs ==
    {a \in RestaurantArgs :
        /\ a.name = "Roma" /\ a.rating = 45
        /\ a.subname # Some("")
        /\ a.coords \in {None, Some(GeoPoint(12, -7))}}

SmallMenuItemArgs ==
    {a \in MenuItemArgs : a.id = "m1" /\ a.price = 9}

IsList(h, a, kind) == a \in 1..Len(h) /\ h[a].kind = kind

-----------------------------------------------------------------------------
(* The state before any object exists *)

Init ==
    /\ heap = <<>>
    /\ rec = NoObject
    /\ args = NoObject
    /\ clock = 0
    /\ lastOp = "none"
    /\ out = None
    /\ prev = None
    /\ statuses = None

-----------------------------------------------------------------------------
(* What the caller does with the lists it holds *)

NewList(kind, elems) ==
    /\ Len(heap) < MaxLists
    /\ heap' = Append(heap, [kind |-> kind, elems |-> elems])
    /\ UNCHANGED <<rec, args, clock, lastOp, out, prev, statuses>>

ListAppend(a, e) ==
    /\ a \in 1..Len(heap)
    /\ Len(heap[a].elems) < MaxLen
    /\ heap' = [heap EXCEPT ![a].elems = Append(@, e)]
    /\ lastOp' = "mutate"
    /\ out' = None
    /\ prev' = None
    /\ UNCHANGED <<rec, args, clock, statuses>>

ListPop(a) ==
    /\ a \in 1..Len(heap)
    /\ heap[a].elems # <<>>
    /\ heap' = [heap EXCEPT ![a].elems = SubSeq(@, 1, Len(@) - 1)]
    /\ lastOp' = "mutate"
    /\ out' = None
    /\ prev' = None
    /\ UNCHANGED <<rec, args, clock, statuses>>

ListSetItem(a, i, e) ==
    /\ a \in 1..Len(heap)
    /\ i \in 1..Len(heap[a].elems)
    /\ heap[a].elems[i] # e
    /\ heap' = [heap EXCEPT ![a].elems[i] = e]
    /\ lastOp' = "mutate"
    /\ out' = None
    /\ prev' = None
    /\ UNCHANGED <<rec, args, clock, statuses>>

ElemsOf(kind) == IF kind = "OrderItem" THEN OrderItems ELSE OrderIds

MutateList ==
    \E a \in 1..MaxLists :
        /\ a \in 1..Len(heap)
        /\ \/ \E e \in ElemsOf(heap[a].kind) : ListAppend(a, e)
           \/ ListPop(a)
           \/ \E i \in 1..MaxLen, e \in ElemsOf(heap[a].kind) : ListSetItem(a, i, e)

Tick ==
    /\ clock < MaxClock
    /\ clock' = clock + 1
    /\ UNCHANGED <<heap, rec, args, lastOp, out, prev, statuses>>

-----------------------------------------------------------------------------
(* Construction *)

Constructed(r, a, h) ==
    /\ rec' = r
    /\ args' = a
    /\ heap' = h
    /\ lastOp' = "construct"
    /\ out' = None
    /\ prev' = None
    /\ UNCHANGED statuses

ConstructRestaurant(a) ==
    /\ Constructed(Restaurant_init(a), a, heap)
    /\ UNCHANGED clock

ConstructMenuItem(a) ==
    /\ Constructed(MenuItem_init(a), a, heap)
    /\ UNCHANGED clock

ConstructUser(a) ==
    /\ a.order_history # None => IsList(heap, a.order_history[1], "str")
    /\ LET c == User_post_init(User_init(a), heap)
       IN  /\ Len(c.heap) <= MaxLists
           /\ Constructed(c.obj, a, c.heap)
    /\ UNCHANGED clock

ConstructOrderItem(a) ==
    /\ Constructed(OrderItem_init(a), a, heap)
    /\ UNCHANGED clock

ConstructOrderCreationData(a) ==
    /\ IsList(heap, a.item_ids, "str")
    /\ Constructed(OrderCreationData_init(a), a, heap)
    /\ UNCHANGED clock

\* uuid.uuid4() and datetime.now() are only called for a field that is None
UuidDraws(a) == IF a.order_id = None THEN UUIDs ELSE {"unused"}

FirstReads(a) == IF a.created_at = None THEN clock..MaxClock ELSE {clock}

SecondReads(a, t1) == IF a.updated_at = None THEN t1..MaxClock ELSE {t1}

ConstructOrder(a) ==
    /\ IsList(heap, a.items, "OrderItem")
    /\ \E uid \in UuidDraws(a), t1 \in FirstReads(a) :
         \E t2 \in SecondReads(a, t1) :
            LET c == Order_init(a, heap)
            IN  /\ Constructed(Order_post_init(c.obj, uid, t1, t2), a, c.heap)
                /\ clock' = t2

-----------------------------------------------------------------------------
(* Conversion and the status table *)

ToDict ==
    /\ rec.cls # "NoObject"
    /\ out' = Some(to_dict(rec))
    /\ prev' = IF lastOp = "to_dict" THEN out ELSE None
    /\ lastOp' = "to_dict"
    /\ UNCHANGED <<heap, rec, args, clock, statuses>>

GetValidStatuses ==
    /\ statuses' = Some(get_valid_statuses)
    /\ UNCHANGED <<heap, rec, args, clock, lastOp, out, prev>>

-----------------------------------------------------------------------------
(* Specifications *)

NewOrderItemList == \E s \in SeqsUpTo(OrderItems, MaxLen) : NewList("OrderItem", s)

NewEmptyOrderItemList == NewList("OrderItem", <<>>)

NewStrList == \E s \in SeqsUpTo(OrderIds, MaxLen) : NewList("str", s)

\* every dataclass, its construction and its conversion
Next ==
    \/ NewOrderItemList
    \/ NewStrList
    \/ MutateList
    \/ Tick
    \/ \E a \in SmallRestaurantArgs : ConstructRestaurant(a)
    \/ \E a \in SmallMenuItemArgs : ConstructMenuItem(a)
    \/ \E a \in UserArgs : ConstructUser(a)
    \/ \E a \in OrderItemArgs : ConstructOrderItem(a)
    \/ \E a \in OrderCreationDataArgs : ConstructOrderCreationData(a)
    \/ \E a \in SmallOrderArgs : ConstructOrder(a)
    \/ ToDict

Spec == Init /\ [][Next]_vars

NextRestaurant ==
    \/ \E a \in RestaurantArgs : ConstructRestaurant(a)
    \/ ToDict

SpecRestaurant == Init /\ [][NextRestaurant]_vars

NextUser ==
    \/ NewStrList
    \/ MutateList
    \/ \E a \in UserArgs : ConstructUser(a)
    \/ ToDict

SpecUser == Init /\ [][NextUser]_vars

\* Orders of empty lists, under every combination of defaulted fields
NextOrderDefaults ==
    \/ NewEmptyOrderItemList
    \/ Tick
    \/ \E a \in OrderArgs : ConstructOrder(a)
    \/ ToDict

SpecOrderDefaults == Init /\ [][NextOrderDefaults]_vars

\* Orders of every list, the caller changing the lists it passed
NextOrderItems ==
    \/ NewOrderItemList
    \/ MutateList
    \/ \E a \in ItemsOrderArgs : ConstructOrder(a)
    \/ ToDict

SpecOrderItems == Init /\ [][NextOrderItems]_vars

NextStatus ==
    \/ NewEmptyOrderItemList
    \/ \E a \in StatusOrderArgs : ConstructOrder(a)
    \/ ToDict
    \/ GetValidStatuses

SpecStatus == Init /\ [][NextStatus]_vars

-----------------------------------------------------------------------------
(* Properties *)

ValidStatuses == Range(get_valid_statuses)

\* C1: after every construction of an Order, each of order_id, created_at and
\* updated_at holds the caller's value when one was supplied and a generated
\* non-null value when it was not, whatever was done for the other two; the
\* other fields are the caller's
OrderDefaultsIndependent ==
    rec.cls = "Order" =>
        /\ \A f \in {"order_id", "created_at", "updated_at"} :
              /\ rec[f] # None
              /\ args[f] # None => rec[f] = args[f]
        /\ args.order_id = None => rec.order_id[1] \in UUIDs
        /\ args.created_at = None => rec.created_at[1] \in 0..clock
        /\ args.updated_at = None => rec.updated_at[1] \in 0..clock
        /\ rec.restaurant = args.restaurant
        /\ rec.user = args.user
        /\ rec.items = args.items
        /\ rec.delivery_address = args.delivery_address

\* an Order whose created_at was supplied and whose order_id and updated_at
\* were generated, the generated instant differing from the supplied one
OrderDefaultsWitness ==
    /\ rec.cls = "Order"
    /\ args.order_id = None /\ rec.order_id # None
    /\ args.created_at # None /\ rec.created_at = args.created_at
    /\ args.updated_at = None /\ rec.updated_at # None
    /\ rec.updated_at # rec.created_at

\* C2 as stated: as long as the Order is the same Order, nothing changes its
\* items nor the items entry of its to_dict()
OrderItemsByValue ==
    [][(rec.cls = "Order" /\ rec' = rec /\ args' = args) =>
          /\ heap'[rec'.items].elems = heap[rec.items].elems
          /\ Order_to_dict(rec)'.items = Order_to_dict(rec).items]_vars

\* C2 amended: the Order's items is the caller's list itself, so the Order's
\* items and the items entry of to_dict() are at all times the current
\* contents of that list
OrderItemsShared ==
    rec.cls = "Order" =>
        /\ rec.items = args.items
        /\ Order_to_dict(rec).items =
              [i \in 1..Len(heap[args.items].elems) |->
                  [menuItemId |-> heap[args.items].elems[i].menu_item_id]]

\* the caller has just changed the one list there is, which it had passed to
\* the Order, and the Order has the two different items that list now has
OrderItemsSharedWitness ==
    /\ rec.cls = "Order"
    /\ lastOp = "mutate"
    /\ Len(heap) = 1
    /\ Len(Order_to_dict(rec).items) = 2
    /\ Order_to_dict(rec).items[1] # Order_to_dict(rec).items[2]

\* C3: Restaurant.to_dict() has the seven fixed keys, subname exactly when the
\* stored subname is a non-empty string, and coords exactly when a point is
\* stored, as the mapping of its latitude and longitude
RestaurantToDictKeys ==
    (rec.cls = "Restaurant" /\ lastOp = "to_dict") =>
        LET d == out[1]
            fixed == {"id", "name", "cuisine", "address", "rating",
                      "deliveryFee", "estimatedDeliveryTime"}
        IN  /\ fixed \subseteq DOMAIN d
            /\ DOMAIN d \subseteq fixed \cup {"subname", "coords"}
            /\ \A k \in fixed : d[k] = rec[k]
            /\ ("subname" \in DOMAIN d) <=> (rec.subname # None /\ rec.subname[1] # "")
            /\ "subname" \in DOMAIN d => d.subname = rec.subname[1]
            /\ ("coords" \in DOMAIN d) <=> (rec.coords # None)
            /\ "coords" \in DOMAIN d =>
                  /\ DOMAIN d.coords = {"latitude", "longitude"}
                  /\ d.coords.latitude = rec.coords[1].latitude
                  /\ d.coords.longitude = rec.coords[1].longitude

\* a Restaurant with an empty subname and the point (0, 0): no subname key,
\* and a coords key
RestaurantToDictWitness ==
    /\ rec.cls = "Restaurant"
    /\ lastOp = "to_dict"
    /\ rec.subname = Some("")
    /\ rec.coords = Some(GeoPoint(0, 0))
    /\ "subname" \notin DOMAIN out[1]
    /\ out[1].coords = [latitude |-> 0, longitude |-> 0]

\* C4 as stated: the status of every Order, and of every mapping its
\* to_dict() produced, is one of the valid statuses
OrderStatusAlwaysValid ==
    rec.cls = "Order" =>
        /\ rec.status \in ValidStatuses
        /\ out # None => out[1].status \in ValidStatuses

\* C4 amended: the Order stores and emits the status as supplied, "pending"
\* when none was, so the status is valid whenever the caller omitted it or
\* supplied a valid one
OrderStatusAsSupplied ==
    rec.cls = "Order" =>
        LET s == IF args.status = Omitted THEN "pending" ELSE args.status[1]
        IN  /\ rec.status = s
            /\ out # None => out[1].status = s
            /\ (args.status = Omitted \/ args.status[1] \in ValidStatuses) =>
                  /\ rec.status \in ValidStatuses
                  /\ out # None => out[1].status \in ValidStatuses

\* an Order constructed without a status, converted: the status is valid
OrderStatusWitness ==
    /\ rec.cls = "Order"
    /\ args.status = Omitted
    /\ out # None
    /\ out[1].status \in ValidStatuses

\* C5: a User constructed without order_history has an empty list as soon as
\* it is constructed, the order history of a User is never None, in the
\* record or in a mapping, and a supplied order_history is the one emitted
UserOrderHistoryDefault ==
    rec.cls = "User" =>
        /\ rec.order_history # None
        /\ User_to_dict(rec).orderHistory # None
        /\ out # None => out[1].orderHistory # None
        /\ (args.order_history = None /\ lastOp = "construct") =>
              heap[User_to_dict(rec).orderHistory[1]].elems = <<>>
        /\ args.order_history # None =>
              /\ User_to_dict(rec).orderHistory = args.order_history
              /\ out # None => out[1].orderHistory = args.order_history

\* a User constructed without order_history and converted at once: the
\* mapping's orderHistory is an empty list
UserOrderHistoryWitness ==
    /\ rec.cls = "User"
    /\ args.order_history = None
    /\ lastOp = "to_dict"
    /\ out[1].orderHistory # None
    /\ heap[out[1].orderHistory[1]].elems = <<>>

\* C6: Order.to_dict() has exactly the seven keys, items is the element-wise
\* conversion of the Order's items in their order, status is "pending" when
\* none was supplied, and createdAt and updatedAt are the stored values
OrderToDictShape ==
    (rec.cls = "Order" /\ lastOp = "to_dict") =>
        LET d == out[1]
            elems == heap[rec.items].elems
        IN  /\ DOMAIN d = {"restaurant", "user", "items", "deliveryAddress",
                           "status", "createdAt", "updatedAt"}
            /\ Len(d.items) = Len(elems)
            /\ \A i \in 1..Len(elems) :
                  d.items[i] = [menuItemId |-> elems[i].menu_item_id]
            /\ args.status = Omitted => d.status = "pending"
            /\ d.status = rec.status
            /\ d.createdAt = rec.created_at
            /\ d.updatedAt = rec.updated_at
            /\ d.restaurant = rec.restaurant
            /\ d.user = rec.user
            /\ d.deliveryAddress = rec.delivery_address

\* an Order of two different items, constructed without a status, converted
OrderToDictWitness ==
    /\ rec.cls = "Order"
    /\ lastOp = "to_dict"
    /\ args.status = Omitted
    /\ Len(out[1].items) = 2
    /\ out[1].items[1] # out[1].items[2]

\* C8: get_valid_statuses() returns the seven statuses in declaration order,
\* without duplicates, each the named constant
ValidStatusesExact ==
    statuses # None =>
        /\ statuses[1] = <<"pending", "confirmed", "preparing", "ready",
                           "out_for_delivery", "delivered", "cancelled">>
        /\ Len(statuses[1]) = 7
        /\ Cardinality(Range(statuses[1])) = 7
        /\ statuses[1] = <<PENDING, CONFIRMED, PREPARING, READY,
                           OUT_FOR_DELIVERY, DELIVERED, CANCELLED>>

\* get_valid_statuses() has returned, after an Order was constructed and
\* converted
ValidStatusesWitness ==
    /\ statuses # None
    /\ statuses[1][7] = "cancelled"
    /\ rec.cls = "Order"
    /\ lastOp = "to_dict"

OrderCreatedBeforeUpdated ==
    (rec.cls = "Order" /\ args.created_at = None /\ args.updated_at = None) =>
        rec.created_at[1] <= rec.updated_at[1]

\* both were omitted and the clock advanced between the two reads
OrderCreatedBeforeUpdatedWitness ==
    /\ rec.cls = "Order"
    /\ args.created_at = None
    /\ args.updated_at = None
    /\ rec.created_at[1] < rec.updated_at[1]

====
